---- MODULE Spec2Model ----
(***************************************************************************)
(* Model of the zeroclaw gateway static-file handler                       *)
(* (src/gateway/static_files.rs), the native runtime adapter               *)
(* (src/runtime/native.rs) and the build script (build.rs).                *)
(*                                                                         *)
(* Strings whose characters matter (asset paths, URIs, file-system paths)  *)
(* are sequences of one-character strings; strings that are only carried   *)
(* around (commands, environment values) are TLA+ strings.                 *)
(***************************************************************************)
EXTENDS Integers, Sequences, FiniteSets, TLC

VARIABLES
    input,      \* the string a caller is composing: [text, pieces]
    probe,      \* last call of is_safe_asset_path: [path, safe]
    bundle,     \* the files rust-embed bundled from web/dist/ (WebAssets)
    request,    \* last request handled by the gateway
    response,   \* the response it produced
    lookup,     \* the path the last handler gave to WebAssets::get, if any
    windows,    \* cfg(windows): the host family the adapter was compiled for
    env,        \* the environment table of the process
    home,       \* the user's home directory as the host resolves it
    hist,       \* the last two adapter calls with what they returned
    firstStorage, \* the first storage_path call of the adapter instance
    fs,         \* the file tree under web/ that the build script sees
    writable,   \* whether the build script may create and write files
    buildLog    \* the last run of the build script: [before, outcome]

gatewayVars == <<bundle, request, response, lookup>>
runtimeVars == <<windows, env, home, hist, firstStorage>>
buildVars == <<fs, writable, buildLog>>
vars == <<input, probe, bundle, request, response, lookup, windows, env,
          home, hist, firstStorage, fs, writable, buildLog>>

\* the value of a variable that holds nothing yet
None == [none |-> TRUE]

(***************************************************************************)
(* Bounds                                                                  *)
(***************************************************************************)
\* longest path, counted in pieces of Pieces
MaxPieces == 4

(***************************************************************************)
(* String helpers (std::str)                                               *)
(***************************************************************************)
SLASH == "/"
BACKSLASH == "\\"
DOT == <<".">>
DOTDOT == <<".", ".">>
A_ASSETS == <<"a", "s", "s", "e", "t", "s">>
A_APP_JS == <<"a", "p", "p", ".", "j", "s">>
A_INDEX_HTML == <<"i", "n", "d", "e", "x", ".", "h", "t", "m", "l">>
A_X == <<"x">>

\* str::contains(char)
ContainsChar(s, c) == \E i \in 1..Len(s) : s[i] = c

\* str::contains(&str)
ContainsStr(s, sub) ==
    \E i \in 0..(Len(s) - Len(sub)) : SubSeq(s, i + 1, i + Len(sub)) = sub

\* str::split('/'): the segments between separators; "" splits into [""]
RECURSIVE Split(_, _)
Split(s, c) ==
    IF ~ContainsChar(s, c)
    THEN <<s>>
    ELSE LET i == CHOOSE k \in 1..Len(s) :
                      s[k] = c /\ \A j \in 1..(k - 1) : s[j] # c
         IN  <<SubSeq(s, 1, i - 1)>> \o Split(SubSeq(s, i + 1, Len(s)), c)

\* str::strip_prefix(p).unwrap_or(s)
StripPrefixOr(s, p) ==
    IF Len(s) >= Len(p) /\ SubSeq(s, 1, Len(p)) = p
    THEN SubSeq(s, Len(p) + 1, Len(s))
    ELSE s

\* str::trim_start_matches(char)
RECURSIVE TrimStartMatches(_, _)
TrimStartMatches(s, c) ==
    IF s # <<>> /\ s[1] = c THEN TrimStartMatches(Tail(s), c) ELSE s

(***************************************************************************)
(* Inputs                                                                  *)
(***************************************************************************)
Pieces == {<<SLASH>>, DOT, DOTDOT, <<BACKSLASH>>, A_X, A_ASSETS, A_APP_JS,
           A_INDEX_HTML}

APP_PREFIX == <<"/", "_", "a", "p", "p", "/">>

NoInput == [text |-> <<>>, pieces |-> 0]

\* a caller extends the string it is composing by one piece
Compose ==
    /\ input.pieces < MaxPieces
    /\ \E p \in Pieces :
          input' = [text |-> input.text \o p, pieces |-> input.pieces + 1]

(***************************************************************************)
(* src/gateway/static_files.rs                                             *)
(***************************************************************************)
CACHE_IMMUTABLE == "public, max-age=31536000, immutable"
CACHE_NO_STORE == "no-cache"

NoLookup == <<"no lookup">>

\* files web/dist/ may hold besides index.html, which build.rs guarantees
BundleCandidates ==
    { A_ASSETS \o <<SLASH>> \o A_APP_JS,
      A_X \o A_ASSETS \o <<SLASH>> \o A_APP_JS,
      A_X \o <<SLASH>> \o A_ASSETS }

\* #[derive(Embed)] #[folder = "web/dist/"]: the possible bundles
WebAssets == {S \cup {A_INDEX_HTML} : S \in SUBSET BundleCandidates}

\* Path::extension of the last segment
Extension(path) ==
    LET segs == Split(path, SLASH)
        name == segs[Len(segs)]
        dots == {i \in 2..Len(name) : name[i] = "."}
    IN  IF dots = {} THEN <<>>
        ELSE LET d == CHOOSE i \in dots : \A j \in dots : j <= i
             IN  SubSeq(name, d + 1, Len(name))

\* mime_guess's table, cut down to the extensions of the modelled files
content_type_for(path) ==
    LET ext == Extension(path)
    IN  IF ext = <<"j", "s">> THEN "text/javascript"
        ELSE IF ext = <<"h", "t", "m", "l">> THEN "text/html"
        ELSE "application/octet-stream"

is_safe_asset_path_no_dot_check(path) ==
    /\ path # <<>>
    /\ ~ContainsChar(path, BACKSLASH)
    /\ LET segs == Split(path, SLASH)
       IN  \A i \in 1..Len(segs) : segs[i] # <<>> /\ segs[i] # DOTDOT

is_safe_asset_path(path) ==
    /\ path # <<>>
    /\ ~ContainsChar(path, BACKSLASH)
    /\ LET segs == Split(path, SLASH)
       IN  \A i \in 1..Len(segs) :
               segs[i] # <<>> /\ segs[i] # DOT /\ segs[i] # DOTDOT

NotFound == [status |-> 404, headers |-> <<>>, body |-> "Not found"]

serve_embedded_file_prefix_rule(assets, path) ==
    [ response |->
          IF path \in assets
          THEN [ status  |-> 200,
                 headers |-> << content_type_for(path),
                                IF SubSeq(path, 1, 7) = A_ASSETS \o <<SLASH>>
                                THEN CACHE_IMMUTABLE ELSE CACHE_NO_STORE >>,
                 body    |-> <<"bytes of", path>> ]
          ELSE NotFound,
      lookup |-> path ]

\* the response, and the path WebAssets::get was called with
serve_embedded_file(assets, path) ==
    [ response |->
          IF path \in assets
          THEN [ status  |-> 200,
                 headers |-> << content_type_for(path),
                                IF ContainsStr(path, A_ASSETS \o <<SLASH>>)
                                THEN CACHE_IMMUTABLE ELSE CACHE_NO_STORE >>,
                 body    |-> <<"bytes of", path>> ]
          ELSE NotFound,
      lookup |-> path ]

\* the asset path handle_static derives from the request
StaticPath(uri) == TrimStartMatches(StripPrefixOr(uri, APP_PREFIX), SLASH)

handle_static_unchecked(assets, uri) ==
    serve_embedded_file(assets, StaticPath(uri))

handle_static(assets, uri) ==
    LET path == StaticPath(uri)
    IN  IF ~is_safe_asset_path(path)
        THEN [response |-> NotFound, lookup |-> NoLookup]
        ELSE serve_embedded_file(assets, path)

handle_spa_fallback(assets) == serve_embedded_file(assets, A_INDEX_HTML)

(***************************************************************************)
(* The predicate alone: is_safe_asset_path applied to any string           *)
(***************************************************************************)
\* the parts of the state a specification leaves aside
IdleGateway ==
    bundle = {} /\ request = None /\ response = None /\ lookup = NoLookup
IdleRuntime ==
    /\ windows = FALSE /\ env = None /\ home = None
    /\ hist = <<None, None>> /\ firstStorage = None
IdleBuild == fs = None /\ writable = FALSE /\ buildLog = None

InitPredicate ==
    /\ input = NoInput
    /\ probe = None
    /\ IdleGateway /\ IdleRuntime /\ IdleBuild

ComposePath ==
    /\ Compose
    /\ probe' = None
    /\ UNCHANGED <<gatewayVars, runtimeVars, buildVars>>

CheckPath ==
    /\ probe = None
    /\ probe' = [path |-> input.text, safe |-> is_safe_asset_path(input.text)]
    /\ UNCHANGED <<input, gatewayVars, runtimeVars, buildVars>>

NextPredicate == ComposePath \/ CheckPath

SpecPredicate == InitPredicate /\ [][NextPredicate]_vars

(***************************************************************************)
(* The gateway: requests against a bundle fixed at compile time            *)
(***************************************************************************)
\* Uri::path() of a request starts with a slash
UriStarts == {<<SLASH>>, APP_PREFIX}

InitGateway ==
    /\ bundle \in WebAssets
    /\ input = NoInput
    /\ request = None /\ response = None /\ lookup = NoLookup
    /\ probe = None
    /\ IdleRuntime /\ IdleBuild

\* a client starts a new request URI
NewUri ==
    /\ \E pre \in UriStarts : input' = [text |-> pre, pieces |-> 0]
    /\ request' = None /\ response' = None /\ lookup' = NoLookup
    /\ UNCHANGED <<bundle, probe, runtimeVars, buildVars>>

ComposeUri ==
    /\ request = None
    /\ input # NoInput
    /\ Compose
    /\ UNCHANGED <<bundle, request, response, lookup, probe, runtimeVars,
                   buildVars>>

HandleStatic ==
    /\ request = None
    /\ input # NoInput
    /\ LET r == handle_static(bundle, input.text)
       IN  /\ request' = [handler |-> "static", uri |-> input.text]
           /\ response' = r.response
           /\ lookup' = r.lookup
    /\ UNCHANGED <<bundle, input, probe, runtimeVars, buildVars>>

HandleSpaFallback ==
    /\ request = None
    /\ input # NoInput
    /\ LET r == handle_spa_fallback(bundle)
       IN  /\ request' = [handler |-> "spa", uri |-> input.text]
           /\ response' = r.response
           /\ lookup' = r.lookup
    /\ UNCHANGED <<bundle, input, probe, runtimeVars, buildVars>>

NextGateway == NewUri \/ ComposeUri \/ HandleStatic \/ HandleSpaFallback

SpecGateway == InitGateway /\ [][NextGateway]_vars

(***************************************************************************)
(* Properties of the gateway                                               *)
(***************************************************************************)
\* a maximal run of non-slash characters of p, from position i to j
IsSegmentAt(p, i, j) ==
    /\ i <= j
    /\ \A k \in i..j : p[k] # SLASH
    /\ i = 1 \/ p[i - 1] = SLASH
    /\ j = Len(p) \/ p[j + 1] = SLASH

\* the asset-path invariant, stated on the characters of the path
SafeByShape(p) ==
    /\ Len(p) > 0
    /\ \A i \in 1..Len(p) : p[i] # BACKSLASH
    /\ p[1] # SLASH
    /\ p[Len(p)] # SLASH
    /\ \A i \in 1..(Len(p) - 1) : ~(p[i] = SLASH /\ p[i + 1] = SLASH)
    /\ \A i, j \in 1..Len(p) :
           IsSegmentAt(p, i, j) => SubSeq(p, i, j) \notin {DOT, DOTDOT}

\* C1: is_safe_asset_path(path) is true exactly when the path is non-empty,
\* has no backslash, and none of its '/'-separated segments is empty, "."
\* or ".." (so a leading, a trailing and a doubled slash are rejected).
C1_SafeIffShape ==
    probe # None => (probe.safe <=> SafeByShape(probe.path))

C1_Witness ==
    /\ probe # None
    /\ probe.path = A_ASSETS \o <<SLASH>> \o A_APP_JS
    /\ probe.safe

\* C2: a static request whose derived path fails the predicate gets the
\* not-found response, the very response a safe path without a bundled
\* asset gets, and WebAssets::get is only reached with a safe path.
C2_UnsafeRejectedAlike ==
    /\ (request # None /\ request.handler = "static"
            /\ ~is_safe_asset_path(StaticPath(request.uri)))
          => /\ response = [status |-> 404, headers |-> <<>>, body |-> "Not found"]
             /\ lookup = NoLookup
    /\ (request # None /\ request.handler = "static"
            /\ is_safe_asset_path(StaticPath(request.uri))
            /\ StaticPath(request.uri) \notin bundle)
          => response = [status |-> 404, headers |-> <<>>, body |-> "Not found"]
    /\ lookup # NoLookup => is_safe_asset_path(lookup)

C2_Witness ==
    /\ request # None
    /\ request.handler = "static"
    /\ request.uri = APP_PREFIX \o DOTDOT \o <<SLASH>> \o A_INDEX_HTML
    /\ response.status = 404

\* C9: serve_embedded_file answers 200 for a bundled path, with the
\* immutable Cache-Control exactly when the path contains "assets/" and
\* "no-cache" otherwise, and 404 "Not found" for any other path; the SPA
\* fallback serves index.html with "no-cache".
C9_CachePolicy ==
    /\ lookup # NoLookup =>
          IF lookup \in bundle
          THEN /\ response.status = 200
               /\ response.body = <<"bytes of", lookup>>
               /\ response.headers[2] =
                     IF \E i \in 1..Len(lookup) :
                            /\ i + 6 <= Len(lookup)
                            /\ lookup[i] = "a" /\ lookup[i + 1] = "s"
                            /\ lookup[i + 2] = "s" /\ lookup[i + 3] = "e"
                            /\ lookup[i + 4] = "t" /\ lookup[i + 5] = "s"
                            /\ lookup[i + 6] = "/"
                     THEN "public, max-age=31536000, immutable"
                     ELSE "no-cache"
          ELSE /\ response.status = 404
               /\ response.body = "Not found"
    /\ (request # None /\ request.handler = "spa") =>
          /\ lookup = A_INDEX_HTML
          /\ response.status = 200
          /\ response.headers[2] = "no-cache"

C9_Witness ==
    /\ lookup = A_X \o A_ASSETS \o <<SLASH>> \o A_APP_JS
    /\ lookup \in bundle
    /\ response.status = 200
    /\ response.headers[2] = CACHE_IMMUTABLE

(***************************************************************************)
(* src/runtime/native.rs                                                   *)
(***************************************************************************)
Unset == "(unset)"
\* a value that is not valid Unicode (an OsString that is no String)
NonUnicode == "(not unicode)"

EnvNames == {"COMSPEC", "PATH"}
EnvValues == {"v1", NonUnicode}
EnvTables == [EnvNames -> EnvValues \cup {Unset}]

Commands == {"", "echo hello"}
WorkspaceDirs == {"/tmp", "/nonexistent"}

NoHome == <<"(no home)">>
HomeDirs == {<<"/">>, <<"/", "h">>, <<"/", "h", "/">>}

DOT_ZEROCLAW == <<".", "z", "e", "r", "o", "c", "l", "a", "w">>

\* PathBuf::join with a relative path
Join(base, rel) ==
    IF base = <<>> \/ base[Len(base)] = SLASH
    THEN base \o rel
    ELSE base \o <<SLASH>> \o rel

\* std::env::var_os
var_os(table, key) == table[key]

\* std::env::vars(): the variables that are set; iterating it panics on a
\* key or value that is not valid Unicode
vars_panics(table) == \E n \in EnvNames : table[n] = NonUnicode
env_vars(table) ==
    [n \in {m \in EnvNames : table[m] # Unset} |-> table[n]]

name == "native"
has_shell_access_denied == FALSE
has_shell_access == TRUE
has_filesystem_access == TRUE
supports_long_running == TRUE
\* RuntimeAdapter::memory_budget, the trait's default
memory_budget == 0

storage_path_unseparated(host) ==
    IF host.home = NoHome
    THEN DOT_ZEROCLAW
    ELSE host.home \o DOT_ZEROCLAW

storage_path_from_env(host) ==
    IF host.env["PATH"] = "v1"
    THEN <<SLASH, "v", "1", SLASH>> \o DOT_ZEROCLAW
    ELSE IF host.home = NoHome
         THEN DOT_ZEROCLAW
         ELSE Join(host.home, DOT_ZEROCLAW)

\* host: what directories::UserDirs::new() can read, [home, env]
storage_path(host) ==
    IF host.home = NoHome
    THEN DOT_ZEROCLAW
    ELSE Join(host.home, DOT_ZEROCLAW)

Panicked == [outcome |-> "panic"]

build_shell_command_fixed_shell(win, table, command, workspace_dir) ==
    IF vars_panics(table)
    THEN Panicked
    ELSE [ outcome     |-> "ok",
           program     |-> IF win THEN "cmd.exe" ELSE "sh",
           envs        |-> env_vars(table),
           args        |-> IF win THEN <<"/d", "/s", "/c", command>>
                                  ELSE <<"-c", command>>,
           current_dir |-> workspace_dir ]

build_shell_command_path_only(win, table, command, workspace_dir) ==
    IF vars_panics(table)
    THEN Panicked
    ELSE [ outcome     |-> "ok",
           program     |-> IF win
                           THEN IF var_os(table, "COMSPEC") = Unset
                                THEN "cmd.exe"
                                ELSE var_os(table, "COMSPEC")
                           ELSE "sh",
           envs        |-> [n \in {m \in {"PATH"} : table[m] # Unset}
                               |-> table[n]],
           args        |-> IF win THEN <<"/d", "/s", "/c", command>>
                                  ELSE <<"-c", command>>,
           current_dir |-> workspace_dir ]

\* Ok(process) as [program, envs, args, current_dir], or the panic of
\* std::env::vars()
build_shell_command(win, table, command, workspace_dir) ==
    IF vars_panics(table)
    THEN Panicked
    ELSE [ outcome     |-> "ok",
           program     |-> IF win
                           THEN IF var_os(table, "COMSPEC") = Unset
                                THEN "cmd.exe"
                                ELSE var_os(table, "COMSPEC")
                           ELSE "sh",
           envs        |-> env_vars(table),
           args        |-> IF win THEN <<"/d", "/s", "/c", command>>
                                  ELSE <<"-c", command>>,
           current_dir |-> workspace_dir ]

(***************************************************************************)
(* The adapter on a host whose environment and home directory change       *)
(***************************************************************************)
InitRuntime ==
    /\ windows \in BOOLEAN
    /\ env \in EnvTables
    /\ home \in HomeDirs \cup {NoHome}
    /\ hist = <<None, None>>
    /\ firstStorage = None
    /\ input = NoInput /\ probe = None
    /\ IdleGateway /\ IdleBuild

\* the call that just returned becomes the newest entry of hist
Record(call) == hist' = <<hist[2], call>>

NotRuntime == <<input, probe, gatewayVars, buildVars>>

\* std::env::set_var / remove_var anywhere in the process
SetEnv ==
    /\ \E n \in EnvNames, v \in EnvValues \cup {Unset} :
          /\ env[n] # v
          /\ env' = [env EXCEPT ![n] = v]
    /\ UNCHANGED <<windows, home, hist, firstStorage, NotRuntime>>

\* the host's answer to the home-directory lookup changes
SetHome ==
    /\ \E h \in HomeDirs \cup {NoHome} : h # home /\ home' = h
    /\ UNCHANGED <<windows, env, hist, firstStorage, NotRuntime>>

CallName ==
    /\ Record([op |-> "name", ret |-> name])
    /\ UNCHANGED <<windows, env, home, firstStorage, NotRuntime>>

CallHasShellAccess ==
    /\ Record([op |-> "has_shell_access", ret |-> has_shell_access])
    /\ UNCHANGED <<windows, env, home, firstStorage, NotRuntime>>

CallHasFilesystemAccess ==
    /\ Record([op |-> "has_filesystem_access",
               ret |-> has_filesystem_access])
    /\ UNCHANGED <<windows, env, home, firstStorage, NotRuntime>>

CallSupportsLongRunning ==
    /\ Record([op |-> "supports_long_running",
               ret |-> supports_long_running])
    /\ UNCHANGED <<windows, env, home, firstStorage, NotRuntime>>

CallMemoryBudget ==
    /\ Record([op |-> "memory_budget", ret |-> memory_budget])
    /\ UNCHANGED <<windows, env, home, firstStorage, NotRuntime>>

CallStoragePath ==
    /\ LET call == [op   |-> "storage_path",
                    home |-> home,
                    ret  |-> storage_path([home |-> home, env |-> env])]
       IN  /\ Record(call)
           /\ firstStorage' =
                 IF firstStorage = None THEN call ELSE firstStorage
    /\ UNCHANGED <<windows, env, home, NotRuntime>>

CallBuildShellCommand ==
    /\ \E command \in Commands, dir \in WorkspaceDirs :
          Record([op      |-> "build_shell_command",
                  command |-> command,
                  dir     |-> dir,
                  env     |-> env,
                  ret     |-> build_shell_command(windows, env, command, dir)])
    /\ UNCHANGED <<windows, env, home, firstStorage, NotRuntime>>

NextRuntime ==
    \/ SetEnv
    \/ SetHome
    \/ CallName
    \/ CallHasShellAccess
    \/ CallHasFilesystemAccess
    \/ CallSupportsLongRunning
    \/ CallMemoryBudget
    \/ CallStoragePath
    \/ CallBuildShellCommand

SpecRuntime == InitRuntime /\ [][NextRuntime]_vars

(***************************************************************************)
(* Properties of the native adapter                                        *)
(***************************************************************************)
\* the recorded calls of one operation
CallsOf(op) ==
    {c \in {hist[1], hist[2], firstStorage} : c # None /\ c.op = op}

Returned == {c \in CallsOf("build_shell_command") : c.ret.outcome = "ok"}

\* C3: a returned description has program "sh" and arguments ["-c", command]
\* off Windows, and on Windows the program COMSPEC names ("cmd.exe" when it
\* is unset) and arguments ["/d", "/s", "/c", command]; the command text is
\* the single last argument, unmodified.
C3_InterpreterAndArgs ==
    \A c \in Returned :
        IF windows
        THEN /\ c.ret.program =
                   IF c.env["COMSPEC"] = Unset THEN "cmd.exe"
                   ELSE c.env["COMSPEC"]
             /\ c.ret.args = <<"/d", "/s", "/c", c.command>>
        ELSE /\ c.ret.program = "sh"
             /\ c.ret.args = <<"-c", c.command>>

C3_Witness ==
    /\ windows
    /\ hist[1] \in Returned /\ hist[2] \in Returned
    /\ hist[1].ret.program = "cmd.exe"
    /\ hist[2].ret.program = "v1"
    /\ hist[2].command = "echo hello"

\* C4: storage_path always returns a path: <home>/.zeroclaw when the home
\* directory resolves and the relative path .zeroclaw when it does not; the
\* path always ends in the component named after the agent.
C4_StoragePathTotal ==
    \A c \in CallsOf("storage_path") :
        LET n == Len(c.ret)
        IN  /\ n >= 9
            /\ SubSeq(c.ret, n - 8, n) =
                   <<".", "z", "e", "r", "o", "c", "l", "a", "w">>
            /\ IF c.home = NoHome
               THEN n = 9
               ELSE /\ c.ret[n - 9] = SLASH
                    /\ c.ret[1] = SLASH
                    /\ SubSeq(c.ret, 1, n - 9) \in {c.home, c.home \o <<SLASH>>}
                    /\ n > 10 => c.ret[n - 10] # SLASH

C4_Witness ==
    /\ hist[1] \in CallsOf("storage_path") /\ hist[1].home = NoHome
    /\ hist[2] \in CallsOf("storage_path") /\ hist[2].home = <<"/", "h">>
    /\ hist[2].ret = <<"/", "h", "/">> \o DOT_ZEROCLAW

\* C5 as stated: every storage_path call of the instance returns what its
\* first call returned, whatever happened to the host in between.
C5_ResolvedOnce ==
    \A c \in CallsOf("storage_path") : c.ret = firstStorage.ret

\* C5 amended: two storage_path calls made while the host resolves the same
\* home directory return identical paths, whatever else happened between.
C5_SameHomeSamePath ==
    \A c, d \in CallsOf("storage_path") : c.home = d.home => c.ret = d.ret

C5_Witness ==
    /\ firstStorage # None
    /\ hist[1] \in CallsOf("storage_path")
    /\ hist[2] \in CallsOf("storage_path")
    /\ hist[1].home = hist[2].home
    /\ hist[1].ret = hist[2].ret
    /\ firstStorage.home # hist[1].home
    /\ home # hist[2].home

\* C6: whatever calls came before, the adapter reports name "native", shell
\* access, filesystem access and long-running support true, and memory
\* budget 0.
C6_CapabilitiesFixed ==
    \A c \in {hist[1], hist[2]} :
        c # None =>
            /\ c.op = "name" => c.ret = "native"
            /\ c.op = "has_shell_access" => c.ret = TRUE
            /\ c.op = "has_filesystem_access" => c.ret = TRUE
            /\ c.op = "supports_long_running" => c.ret = TRUE
            /\ c.op = "memory_budget" => c.ret = 0

C6_Witness ==
    /\ hist[1] \in CallsOf("build_shell_command")
    /\ hist[2] \in CallsOf("has_shell_access")
    /\ hist[2].ret = TRUE
    /\ firstStorage # None

\* C7: build_shell_command never fails, whatever the command, the working
\* directory and the environment table, and the description's working
\* directory is the supplied path.
C7_NeverFails ==
    \A c \in CallsOf("build_shell_command") :
        /\ c.ret.outcome = "ok"
        /\ c.ret.current_dir = c.dir

\* C8: the environment table of a returned description holds exactly the
\* variables the parent environment held at the call, with their values;
\* later changes of the environment and later calls leave it as it was.
C8_EnvSnapshot ==
    \A c \in Returned :
        /\ DOMAIN c.ret.envs = {n \in EnvNames : c.env[n] # Unset}
        /\ \A n \in DOMAIN c.ret.envs : c.ret.envs[n] = c.env[n]

C8_Witness ==
    /\ hist[1] \in Returned /\ hist[2] \in Returned
    /\ DOMAIN hist[1].ret.envs = {"COMSPEC", "PATH"}
    /\ DOMAIN hist[2].ret.envs = {"PATH"}
    /\ env = [n \in EnvNames |-> Unset]

(***************************************************************************)
(* build.rs                                                                *)
(***************************************************************************)
PLACEHOLDER_INDEX_HTML == "<!doctype html> ... Dashboard assets are not built yet"

Absent == [kind |-> "absent"]
Dir == [kind |-> "dir"]
File(content) == [kind |-> "file", content |-> content]

Contents == {PLACEHOLDER_INDEX_HTML, "dashboard v1", "dashboard v2"}
Nodes == {Absent, Dir} \cup {File(c) : c \in Contents}

\* web/, web/dist/, web/dist/index.html and web/dist/assets: something
\* exists only inside a directory
Trees ==
    {t \in [web : Nodes, dist : Nodes, index : Nodes, assets : Nodes] :
        /\ t.dist # Absent => t.web = Dir
        /\ (t.index # Absent \/ t.assets # Absent) => t.dist = Dir}

\* Path::exists
exists(node) == node # Absent

main_always_writes(tree, w) ==
    LET made ==
            IF ~exists(tree.dist)
            THEN IF w /\ tree.web \in {Absent, Dir}
                 THEN [tree |-> [tree EXCEPT !.web = Dir, !.dist = Dir],
                       outcome |-> "ok"]
                 ELSE [tree |-> tree, outcome |-> "panic"]
            ELSE [tree |-> tree, outcome |-> "ok"]
    IN  IF made.outcome = "panic"
        THEN made
        ELSE IF w /\ made.tree.dist = Dir /\ made.tree.index # Dir
             THEN [tree |-> [made.tree EXCEPT
                                !.index = File(PLACEHOLDER_INDEX_HTML)],
                   outcome |-> "ok"]
             ELSE [tree |-> made.tree, outcome |-> "panic"]

\* one run of the build script on `tree`; w: it may create and write files.
\* A failed expect() is outcome "panic".
main(tree, w) ==
    LET made ==
            IF ~exists(tree.dist)
            THEN IF w /\ tree.web \in {Absent, Dir}
                 THEN [tree |-> [tree EXCEPT !.web = Dir, !.dist = Dir],
                       outcome |-> "ok"]
                 ELSE [tree |-> tree, outcome |-> "panic"]
            ELSE [tree |-> tree, outcome |-> "ok"]
    IN  IF made.outcome = "panic"
        THEN made
        ELSE IF ~exists(made.tree.index)
             THEN IF w /\ made.tree.dist = Dir
                  THEN [tree |-> [made.tree EXCEPT
                                     !.index = File(PLACEHOLDER_INDEX_HTML)],
                        outcome |-> "ok"]
                  ELSE [tree |-> made.tree, outcome |-> "panic"]
             ELSE [tree |-> made.tree, outcome |-> "ok"]

InitBuild ==
    /\ fs \in Trees
    /\ writable \in BOOLEAN
    /\ buildLog = None
    /\ input = NoInput /\ probe = None
    /\ IdleGateway /\ IdleRuntime

NotBuild == <<input, probe, gatewayVars, runtimeVars>>

\* cargo runs the build script
RunBuildScript ==
    /\ LET r == main(fs, writable)
       IN  /\ fs' = r.tree
           /\ buildLog' = [before |-> fs, outcome |-> r.outcome]
    /\ UNCHANGED <<writable, NotBuild>>

\* something else (the web build, a clean) rewrites the tree
OtherProcess ==
    /\ \E t \in Trees :
          /\ Cardinality({f \in {"web", "dist", "index", "assets"} :
                              t[f] # fs[f]}) = 1
          /\ fs' = t
    /\ buildLog' = None
    /\ UNCHANGED <<writable, NotBuild>>

\* the permissions on the tree change
SetWritable ==
    /\ writable' = ~writable
    /\ buildLog' = None
    /\ UNCHANGED <<fs, NotBuild>>

NextBuild == RunBuildScript \/ OtherProcess \/ SetWritable

SpecBuild == InitBuild /\ [][NextBuild]_vars

\* C10: after a successful run index.html exists; the run writes the
\* placeholder only where index.html did not exist, leaves an existing
\* index.html and everything else as it was, and a further run changes
\* nothing.
C10_PlaceholderOnlyWhenMissing ==
    buildLog # None =>
        /\ buildLog.outcome = "ok" => fs.index # Absent
        /\ buildLog.before.index # Absent =>
              fs = buildLog.before /\ buildLog.outcome = "ok"
        /\ fs.index # buildLog.before.index =>
              /\ buildLog.before.index = Absent
              /\ fs.index = File(PLACEHOLDER_INDEX_HTML)
        /\ fs.assets = buildLog.before.assets
        /\ buildLog.outcome = "ok" =>
              \A w \in BOOLEAN : main(fs, w) = [tree |-> fs, outcome |-> "ok"]

C10_Witness ==
    /\ buildLog # None
    /\ buildLog.outcome = "ok"
    /\ buildLog.before.index = File("dashboard v1")
    /\ fs.index = File("dashboard v1")
    /\ writable

====
